---- MODULE Spec2Model ----
(***************************************************************************)
(* Question generation of the quiz application                             *)
(* (src/quiz/utils/question_generator.py): the orchestrator                *)
(* generate_questions, the heuristic generator generate_questions_simple   *)
(* and the model-backed generator generate_questions_ai.                   *)
(*                                                                         *)
(* A Python str is a sequence of characters, each character a one-letter   *)
(* TLA+ string (the en dash is the atom "ENDASH").  A question dict is a   *)
(* record; its "type" is a TLA+ string, every other field a str.           *)
(***************************************************************************)
EXTENDS Integers, Sequences, FiniteSets, TLC

(***************************************************************************)
(* Bounds of the model.                                                    *)
(***************************************************************************)
\* largest num_questions a caller passes
MaxN == 2
\* most values in a JSON array the external service answers with
MaxItems == 2
\* longest text enumerated over TextAlphabet
MaxTextLen == 2
\* the longest text given to _split_sentences on its own
MaxSegLen == 4
\* largest num_questions given to generate_questions_simple on its own
MaxSimpleN == 3

(***************************************************************************)
(* str helpers, as the Python built-ins compute them.                      *)
(***************************************************************************)
Whitespace == {" ", "\n", "\r", "\t"}

UPPER ==
    <<"A","B","C","D","E","F","G","H","I","J","K","L","M","N","O","P","Q","R","S","T","U",
      "V","W","X","Y","Z">>

LOWER ==
    <<"a","b","c","d","e","f","g","h","i","j","k","l","m","n","o","p","q","r","s","t","u",
      "v","w","x","y","z">>

\* str.lower() of one character
LowerChar(c) ==
    IF \E i \in 1..Len(UPPER) : UPPER[i] = c
    THEN LOWER[CHOOSE i \in 1..Len(UPPER) : UPPER[i] = c]
    ELSE c

\* str.lower()
Lower(s) == [i \in 1..Len(s) |-> LowerChar(s[i])] \o <<>>

\* the indices of s, in order
Indices(s) == [i \in 1..Len(s) |-> i] \o <<>>

\* str.lstrip(chars): s from its first character not in cs
LStripSet(s, cs) ==
    IF \A i \in 1..Len(s) : s[i] \in cs THEN <<>>
    ELSE SubSeq(s, CHOOSE i \in 1..Len(s) :
                       s[i] \notin cs /\ \A j \in 1..(i - 1) : s[j] \in cs,
                Len(s))

\* str.rstrip(chars): s up to its last character not in cs
RStripSet(s, cs) ==
    IF \A i \in 1..Len(s) : s[i] \in cs THEN <<>>
    ELSE SubSeq(s, 1, CHOOSE i \in 1..Len(s) :
                          s[i] \notin cs /\ \A j \in (i + 1)..Len(s) : s[j] \in cs)

\* str.strip(chars)
StripSet(s, cs) == RStripSet(LStripSet(s, cs), cs)

\* str.strip()
Strip(s) == StripSet(s, Whitespace)

\* str.rstrip()
RStrip(s) == RStripSet(s, Whitespace)

\* s[i:] and s[:i] with Python's 0-based index i
From(s, i) == SubSeq(s, i + 1, Len(s))
Upto(s, i) == SubSeq(s, 1, IF i < Len(s) THEN i ELSE Len(s))

StartsWith(s, p) == Len(s) >= Len(p) /\ SubSeq(s, 1, Len(p)) = p

EndsWith(s, p) == Len(s) >= Len(p) /\ SubSeq(s, Len(s) - Len(p) + 1, Len(s)) = p

Occurrences(s, sub) ==
    {i \in 0..(Len(s) - Len(sub)) : SubSeq(s, i + 1, i + Len(sub)) = sub}

\* str.find(sub): the 0-based index of the first occurrence, -1 when there is none
Find(s, sub) ==
    IF Occurrences(s, sub) = {} THEN -1
    ELSE CHOOSE i \in Occurrences(s, sub) : \A j \in Occurrences(s, sub) : i <= j

\* str.rfind(sub)
RFind(s, sub) ==
    IF Occurrences(s, sub) = {} THEN -1
    ELSE CHOOSE i \in Occurrences(s, sub) : \A j \in Occurrences(s, sub) : j <= i

\* sub in s
Contains(s, sub) == Find(s, sub) # -1

\* str.replace(old, c) for a replacement c of one character and an old no
\* two occurrences of which overlap: the first character of an occurrence
\* becomes c, its other characters go
ReplaceByChar(s, old, c) ==
    LET occ == Occurrences(s, old)
        dropped(i) == \E j \in occ : j + 1 < i /\ i <= j + Len(old)
        kept == SelectSeq(Indices(s), LAMBDA i : ~dropped(i))
    IN  [k \in 1..Len(kept) |-> IF (kept[k] - 1) \in occ THEN c ELSE s[kept[k]]] \o <<>>

\* str.count(sub): the occurrences met left to right, none overlapping the
\* one before it
RECURSIVE CountFrom(_, _, _)
CountFrom(occ, from, width) ==
    IF {i \in occ : i >= from} = {} THEN 0
    ELSE LET first == CHOOSE i \in occ : i >= from /\ \A j \in occ : j >= from => i <= j
         IN  1 + CountFrom(occ, first + width, width)

Count(s, sub) == CountFrom(Occurrences(s, sub), 0, Len(sub))

\* str.split(sep, 1): the parts before and after the first sep (sep occurs in s)
SplitOnce(s, sep) ==
    <<Upto(s, Find(s, sep)), From(s, Find(s, sep) + Len(sep))>>

\* str.split(sep)[0]
FirstPart(s, sep) == IF Contains(s, sep) THEN Upto(s, Find(s, sep)) ELSE s

\* str.split(): the maximal runs of non-whitespace characters
Split(s) ==
    LET starts == SelectSeq(Indices(s), LAMBDA i :
                      s[i] \notin Whitespace /\ (i = 1 \/ s[i - 1] \in Whitespace))
        ends   == SelectSeq(Indices(s), LAMBDA i :
                      s[i] \notin Whitespace /\ (i = Len(s) \/ s[i + 1] \in Whitespace))
    IN  [k \in 1..Len(starts) |-> SubSeq(s, starts[k], ends[k])] \o <<>>

\* sep.join(parts)
RECURSIVE Join(_, _)
Join(parts, sep) ==
    IF parts = <<>> THEN <<>>
    ELSE IF Len(parts) = 1 THEN parts[1]
    ELSE parts[1] \o sep \o Join(Tail(parts), sep)

\* min(a, b), max(a, b)
Min(a, b) == IF a < b THEN a ELSE b
Max(a, b) == IF a > b THEN a ELSE b

(***************************************************************************)
(* String literals of the generator.                                       *)
(***************************************************************************)
PLACEHOLDER_SENTENCE ==
    <<"T","h","i","s"," ","i","s"," ","a"," ","p","l","a","c","e","h","o","l","d","e","r",
      " ","s","e","n","t","e","n","c","e"," ","b","e","c","a","u","s","e"," ","n","o"," ",
      "t","e","x","t"," ","w","a","s"," ","f","o","u","n","d",".">>

MCQ_PROMPT_PREFIX ==
    <<"A","c","c","o","r","d","i","n","g"," ","t","o"," ","y","o","u","r"," ","n","o","t",
      "e","s",","," ","w","h","i","c","h"," ","s","t","a","t","e","m","e","n","t"," ","b",
      "e","s","t"," ","m","a","t","c","h","e","s"," ","t","h","i","s"," ","i","d","e","a",
      "?","\n","\n">>

MCQ_OPTION_B ==
    <<"A"," ","d","e","t","a","i","l"," ","t","h","a","t"," ","d","o","e","s"," ","n","o",
      "t"," ","f","u","l","l","y"," ","m","a","t","c","h"," ","t","h","e"," ","n","o","t",
      "e","s",".">>

MCQ_OPTION_C ==
    <<"A"," ","s","t","a","t","e","m","e","n","t"," ","t","h","a","t"," ","c","o","n","t",
      "r","a","d","i","c","t","s"," ","t","h","e"," ","n","o","t","e","s",".">>

MCQ_OPTION_D ==
    <<"A","n"," ","u","n","r","e","l","a","t","e","d"," ","c","o","n","c","e","p","t",".">>

MCQ_EXPLANATION ==
    <<"O","p","t","i","o","n"," ","A"," ","i","s"," ","c","l","o","s","e","s","t"," ","t",
      "o"," ","t","h","e"," ","w","o","r","d","i","n","g"," ","a","n","d"," ","m","e","a",
      "n","i","n","g"," ","i","n"," ","t","h","e"," ","n","o","t","e","s",".">>

FILL_PROMPT_PREFIX ==
    <<"F","i","l","l"," ","i","n"," ","t","h","e"," ","m","i","s","s","i","n","g"," ","w",
      "o","r","d"," ","o","r"," ","p","h","r","a","s","e",":","\n","\n">>

FILL_EXPL_PREFIX ==
    <<"T","h","e"," ","m","i","s","s","i","n","g"," ","w","o","r","d"," ","f","r","o","m",
      " ","t","h","e"," ","o","r","i","g","i","n","a","l"," ","n","o","t","e","s"," ","i",
      "s"," ","'">>

FILL_EXPL_SUFFIX ==
    <<"'",".">>

FILL_SHORT_EXPLANATION ==
    <<"S","h","o","r","t"," ","s","e","n","t","e","n","c","e"," ","u","s","e","d"," ","d",
      "i","r","e","c","t","l","y"," ","a","s"," ","t","h","e"," ","a","n","s","w","e","r",
      ".">>

BLANK ==
    <<"_","_","_","_","_">>

SHORT_PROMPT_PREFIX ==
    <<"B","r","i","e","f","l","y"," ","e","x","p","l","a","i","n"," ","t","h","i","s"," ",
      "i","d","e","a"," ","f","r","o","m"," ","y","o","u","r"," ","n","o","t","e","s",":",
      "\n","\n">>

SHORT_EXPLANATION ==
    <<"A"," ","g","o","o","d"," ","a","n","s","w","e","r"," ","s","h","o","u","l","d"," ",
      "c","a","p","t","u","r","e"," ","t","h","e"," ","m","a","i","n"," ","i","d","e","a",
      " ","o","f"," ","t","h","e"," ","o","r","i","g","i","n","a","l"," ","s","e","n","t",
      "e","n","c","e",".">>

ELSE_EXPLANATION ==
    <<"T","h","i","s"," ","q","u","e","s","t","i","o","n"," ","w","a","s"," ","g","e","n",
      "e","r","a","t","e","d"," ","f","r","o","m"," ","a"," ","s","i","n","g","l","e"," ",
      "s","e","n","t","e","n","c","e"," ","i","n"," ","y","o","u","r"," ","n","o","t","e",
      "s",".">>

MCQ == <<"m","c","q">>
FLASHCARD == <<"f","l","a","s","h","c","a","r","d">>
FILL_BLANK == <<"f","i","l","l","_","b","l","a","n","k">>
SHORT_ANSWER == <<"s","h","o","r","t","_","a","n","s","w","e","r">>
VALID_TYPES == {MCQ, FLASHCARD, FILL_BLANK, SHORT_ANSWER}

(***************************************************************************)
(* Helpers of the generator.                                               *)
(***************************************************************************)
\* default of _clean_text's max_len
DEFAULT_MAX_LEN == 8000

\* _clean_text(text, max_len): None and "" both arrive here as <<>>
CleanTextTo(text, max_len) ==
    IF text = <<>> THEN <<>>
    ELSE LET t == Strip(ReplaceByChar(text, <<"\r", "\n">>, "\n"))
         IN  IF Len(t) > max_len THEN Upto(t, max_len) ELSE t

_clean_text(text) == CleanTextTo(text, DEFAULT_MAX_LEN)

\* a variant of SentenceChunks that ends a chunk before each of . ! ?
SentenceChunksBeforeMark(s) ==
    LET ends == SelectSeq(Indices(s), LAMBDA i :
                    i = Len(s) \/ s[i + 1] \in {".", "!", "?"})
    IN  [k \in 1..Len(ends) |->
            SubSeq(s, IF k = 1 THEN 1 ELSE ends[k - 1] + 1, ends[k])] \o <<>>

\* the scan of _split_sentences: a chunk ends with each of . ! ? and the
\* characters after the last of them are a chunk too
SentenceChunks(s) ==
    LET ends == SelectSeq(Indices(s), LAMBDA i :
                    s[i] \in {".", "!", "?"} \/ i = Len(s))
    IN  [k \in 1..Len(ends) |->
            SubSeq(s, IF k = 1 THEN 1 ELSE ends[k - 1] + 1, ends[k])] \o <<>>

NonEmpty(s) == s # <<>>

_split_sentences(text) ==
    IF text = <<>> THEN <<>>
    ELSE LET temp == SentenceChunks(ReplaceByChar(text, <<"\n">>, " "))
         IN  SelectSeq([k \in 1..Len(temp) |-> Strip(temp[k])], NonEmpty)

STOPWORDS ==
    { <<"t","h","e">>, <<"a","n","d">>, <<"o","f">>, <<"a">>, <<"a","n">>, <<"t","o">>,
      <<"i","n">>, <<"o","n">>, <<"f","o","r">>, <<"i","s">>, <<"a","r","e">> }

IsContentWord(w) == StripSet(Lower(w), {",", "."}) \notin STOPWORDS

ContentWords(words) == SelectSeq(words, IsContentWord)

\* _pick_content_word(words); choice, in 0..len(content)-1, is the index
\* random.choice draws
_pick_content_word(words, choice) ==
    LET content == ContentWords(words)
    IN  IF content # <<>> THEN content[choice + 1]
        ELSE words[Len(words)]

(***************************************************************************)
(* generate_questions_simple: one question dict per loop iteration.        *)
(***************************************************************************)
EmptyQuestion(question_type) ==
    [type |-> question_type, prompt |-> <<>>, option_a |-> <<>>, option_b |-> <<>>,
     option_c |-> <<>>, option_d |-> <<>>, correct_option |-> <<>>,
     answer_text |-> <<>>, explanation |-> <<>>]

\* the term and the definition a flashcard takes from the sentence
FlashcardParts(base, words) ==
    IF Contains(base, <<" ", "-", " ">>)
    THEN LET parts == SplitOnce(base, <<" ", "-", " ">>)
         IN  <<Strip(parts[1]), Strip(parts[2])>>
    ELSE IF Contains(base, <<" ", "ENDASH", " ">>)
    THEN LET parts == SplitOnce(base, <<" ", "ENDASH", " ">>)
         IN  <<Strip(parts[1]), Strip(parts[2])>>
    ELSE IF Contains(base, <<":">>) /\ Len(Split(FirstPart(base, <<":">>))) <= 5
    THEN LET parts == SplitOnce(base, <<":">>)
         IN  <<Strip(parts[1]), Strip(parts[2])>>
    ELSE <<Join(SubSeq(words, 1, Min(Len(words), 5)), <<" ">>), base>>

FlashcardQuestion(q, base, words) ==
    LET td == FlashcardParts(base, words)
    IN  [q EXCEPT !.prompt = td[1], !.answer_text = td[2], !.explanation = td[2]]

\* the stem and the concept (option A) an MCQ takes from the sentence
McqParts(base, words) ==
    IF Len(words) > 10
    THEN LET split_idx == Len(words) \div 2
         IN  <<Join(SubSeq(words, 1, split_idx), <<" ">>),
               Join(SubSeq(words, split_idx + 1, Len(words)), <<" ">>)>>
    ELSE <<base, base>>

McqQuestion(q, base, words) ==
    LET sc == McqParts(base, words)
    IN  [q EXCEPT !.prompt = MCQ_PROMPT_PREFIX \o sc[1],
                  !.option_a = sc[2],
                  !.option_b = MCQ_OPTION_B,
                  !.option_c = MCQ_OPTION_C,
                  !.option_d = MCQ_OPTION_D,
                  !.correct_option = <<"A">>,
                  !.answer_text = sc[2],
                  !.explanation = MCQ_EXPLANATION]

\* the loop over words that blanks the first word equal to hidden
RECURSIVE BlankFirst(_, _, _)
BlankFirst(words, hidden, hidden_done) ==
    IF words = <<>> THEN <<>>
    ELSE IF ~hidden_done /\ Head(words) = hidden
         THEN <<BLANK>> \o BlankFirst(Tail(words), hidden, TRUE)
         ELSE <<Head(words)>> \o BlankFirst(Tail(words), hidden, hidden_done)

FillBlankQuestion(q, base, words, choice) ==
    IF Len(words) > 4
    THEN LET hidden == _pick_content_word(words, choice)
             prompt == Join(BlankFirst(words, hidden, FALSE), <<" ">>)
             shown  == StripSet(hidden, {",", "."})
         IN  [q EXCEPT !.prompt = FILL_PROMPT_PREFIX \o prompt,
                       !.answer_text = shown,
                       !.explanation = FILL_EXPL_PREFIX \o shown \o FILL_EXPL_SUFFIX]
    ELSE [q EXCEPT !.prompt = base,
                   !.answer_text = base,
                   !.explanation = FILL_SHORT_EXPLANATION]

ShortAnswerQuestion(q, base, words) ==
    LET topic == Join(SubSeq(words, 1, Min(Len(words), 7)), <<" ">>)
    IN  [q EXCEPT !.prompt = SHORT_PROMPT_PREFIX \o topic,
                  !.answer_text = base,
                  !.explanation = SHORT_EXPLANATION]

\* the final else of the loop body
OtherQuestion(q, base) ==
    [q EXCEPT !.type = SHORT_ANSWER, !.prompt = base, !.answer_text = base,
              !.explanation = ELSE_EXPLANATION]

\* the body of the loop for one sentence
BuildQuestion(base, question_type, choice) ==
    LET words == Split(base)
        q     == EmptyQuestion(question_type)
    IN  CASE question_type = FLASHCARD    -> FlashcardQuestion(q, base, words)
          [] question_type = MCQ          -> McqQuestion(q, base, words)
          [] question_type = FILL_BLANK   -> FillBlankQuestion(q, base, words, choice)
          [] question_type = SHORT_ANSWER -> ShortAnswerQuestion(q, base, words)
          [] OTHER                        -> OtherQuestion(q, base)

\* a variant of PoolOf whose stand-in sentence is the empty string
PoolOfEmptySentence(sentences) ==
    IF sentences = <<>> THEN << <<>> >> ELSE sentences

\* the sentence pool: the placeholder when the text has no sentence
PoolOf(sentences) ==
    IF sentences = <<>> THEN <<PLACEHOLDER_SENTENCE>> ELSE sentences

SentencePool(text) == PoolOf(_split_sentences(text))

\* a variant of NthBase that stays on the last sentence instead of starting
\* over
NthBaseClamped(sentences, i) == sentences[Min(i, Len(sentences))]

\* sentences[i % n_sent] for the 1-based iteration i
NthBase(sentences, i) == sentences[((i - 1) % Len(sentences)) + 1]

BaseSentence(text, i) == NthBase(SentencePool(text), i)

\* the number of words random.choice chooses among in a sentence: 0 when
\* the loop body does not call it
ChoicesIn(words, question_type) ==
    IF question_type = FILL_BLANK /\ Len(words) > 4 THEN Len(ContentWords(words))
    ELSE 0

\* that number for each iteration of the loop
ChoiceCounts(sentences, question_type, num_questions) ==
    [i \in 1..num_questions |->
        ChoicesIn(Split(NthBase(sentences, i)), question_type)] \o <<>>

\* what the random source can yield during one call: one index per
\* iteration that draws, each below the number of words to choose among
DrawsFor(counts) ==
    LET D == {i \in DOMAIN counts : counts[i] > 0}
        widest == IF D = {} THEN 0
                  ELSE CHOOSE w \in {counts[i] : i \in D} : \A j \in D : counts[j] <= w
    IN  {r \in [D -> 0..(widest - 1)] : \A i \in D : r[i] < counts[i]}

RandomDraws(text, question_type, num_questions) ==
    DrawsFor(ChoiceCounts(SentencePool(text), question_type, num_questions))

\* the loop of generate_questions_simple over the sentence pool
QuestionsFrom(sentences, question_type, num_questions, rnd) ==
    [i \in 1..num_questions |->
        BuildQuestion(NthBase(sentences, i), question_type,
                      IF i \in DOMAIN rnd THEN rnd[i] ELSE 0)]

\* generate_questions_simple; rnd[i] is the draw of iteration i
generate_questions_simple(text, question_type, num_questions, rnd) ==
    QuestionsFrom(SentencePool(text), question_type, num_questions, rnd)

(***************************************************************************)
(* The reply of the external service and json.loads.                       *)
(*                                                                         *)
(* The reply text is a sequence of characters in which the text of one     *)
(* JSON value without brackets of its own (an object, a number, a string,  *)
(* null) and a run of prose are single atoms; JsonValue gives the value an *)
(* atom denotes.  A JSON value is a record: k its kind, s the text of a    *)
(* string or number, e the elements of an array, o the members of an       *)
(* object (JAbsent for a key the object does not have).                    *)
(***************************************************************************)
JAbsent == [k |-> "absent", s |-> <<>>]
JNull == [k |-> "null", s |-> <<>>]
JStr(s) == [k |-> "str", s |-> s]
JNum(s) == [k |-> "num", s |-> s]
JArr(e) == [k |-> "arr", s |-> <<>>, e |-> e]
JObj(o) == [k |-> "obj", s |-> <<>>, o |-> o]

KEYS ==
    {"type", "prompt", "option_a", "option_b", "option_c", "option_d",
     "correct_option", "answer_text", "explanation"}

NoMembers == [key \in KEYS |-> JAbsent]

\* an object with all nine members, the options and the key filled in
FullObject(type, prompt) ==
    JObj([type |-> type, prompt |-> prompt,
          option_a |-> JStr(<<"w">>), option_b |-> JStr(<<"x">>),
          option_c |-> JStr(<<"y">>), option_d |-> JStr(<<"z">>),
          correct_option |-> JStr(<<"B">>), answer_text |-> JStr(<<"x">>),
          explanation |-> JStr(<<"e">>)])

JsonValue(atom) ==
    CASE atom = "{mcq}"       -> FullObject(JStr(MCQ), JStr(<<"Q","?">>))
      [] atom = "{flashcard}" -> FullObject(JStr(FLASHCARD), JStr(<<" ","T"," ">>))
      [] atom = "{essay}"     -> FullObject(JStr(<<"e","s","s","a","y">>), JStr(<<"Q","?">>))
      [] atom = "{numtype}"   -> FullObject(JNum(<<"3">>), JStr(<<"Q","?">>))
      [] atom = "{objtype}"   -> FullObject(JObj(NoMembers), JStr(<<"Q","?">>))
      [] atom = "{noprompt}"  -> JObj([NoMembers EXCEPT !["option_a"] = JNum(<<"5">>),
                                                        !["option_b"] = JNull])
      [] atom = "{blank}"     -> FullObject(JStr(SHORT_ANSWER), JStr(<<" ">>))
      [] atom = "{nullprompt}" -> FullObject(JStr(MCQ), JNull)
      [] atom = "{}"          -> JObj(NoMembers)
      [] atom = "7"           -> JNum(<<"7">>)
      [] atom = "null"        -> JNull
      [] atom = "\"\""        -> JStr(<<>>)
      [] atom = "\"s\""       -> JStr(<<"s">>)

ValueAtoms ==
    {"{mcq}", "{flashcard}", "{essay}", "{numtype}", "{objtype}", "{noprompt}",
     "{blank}", "{nullprompt}", "{}", "7", "null", "\"\"", "\"s\""}

\* the result of a call that may raise
Ok(v) == [ok |-> TRUE, val |-> v, exc |-> "none"]
Err(e) == [ok |-> FALSE, val |-> <<>>, exc |-> e]

IsValueAtom(a) == a \in ValueAtoms
NotWhitespace(a) == a \notin Whitespace

\* the elements between the brackets: values separated by single commas
RECURSIVE ParseElements(_, _)
ParseElements(toks, acc) ==
    IF toks = <<>> THEN Err("JSONDecodeError")
    ELSE IF ~IsValueAtom(Head(toks)) THEN Err("JSONDecodeError")
    ELSE IF Len(toks) = 1 THEN Ok(JArr(Append(acc, JsonValue(Head(toks)))))
    ELSE IF toks[2] # "," THEN Err("JSONDecodeError")
    ELSE ParseElements(From(toks, 2), Append(acc, JsonValue(Head(toks))))

\* json.loads(text): one value, whitespace around it and between the tokens
\* of an array allowed
json_loads(text) ==
    LET toks == SelectSeq(text, NotWhitespace)
    IN  IF toks = <<>> THEN Err("JSONDecodeError")
        ELSE IF Len(toks) = 1
             THEN (IF IsValueAtom(toks[1]) THEN Ok(JsonValue(toks[1]))
                   ELSE Err("JSONDecodeError"))
        ELSE IF Head(toks) = "[" /\ toks[Len(toks)] = "]"
             THEN (IF Len(toks) = 2 THEN Ok(JArr(<<>>))
                   ELSE ParseElements(SubSeq(toks, 2, Len(toks) - 1), <<>>))
        ELSE Err("JSONDecodeError")

(***************************************************************************)
(* generate_questions_ai after the service has answered: cleaning the raw  *)
(* output, parsing it, coercing each parsed value to a question dict.      *)
(***************************************************************************)
\* three backticks; the character is the atom "BACKTICK"
FENCE == <<"BACKTICK", "BACKTICK", "BACKTICK">>

\* strip a leading markdown fence line and a trailing fence
StripFences(text) ==
    IF StartsWith(text, FENCE)
    THEN LET first_newline == Find(text, <<"\n">>)
             t1 == IF first_newline # -1 THEN From(text, first_newline + 1) ELSE text
         IN  IF EndsWith(RStrip(t1), FENCE)
             THEN Strip(Upto(RStrip(t1), Len(RStrip(t1)) - 3))
             ELSE t1
    ELSE text

\* keep the region from the first [ to the last ]
ArrayRegion(text) ==
    LET start == Find(text, <<"[">>)
        end   == RFind(text, <<"]">>)
    IN  IF start # -1 /\ end # -1 /\ end > start
        THEN SubSeq(text, start + 1, end + 1)
        ELSE text

CleanRawOutput(raw_output) == ArrayRegion(StripFences(Strip(raw_output)))

\* qt_exact of the requested type
QtExact(question_type) ==
    IF question_type \in {MCQ, FLASHCARD, FILL_BLANK} THEN question_type
    ELSE SHORT_ANSWER

\* dict.get(key, default)
Get(item, key, default) ==
    IF item.o[key].k = "absent" THEN default ELSE item.o[key]

\* bool(v)
Truthy(v) ==
    CASE v.k = "null" -> FALSE
      [] v.k = "str"  -> v.s # <<>>
      [] v.k = "num"  -> v.s # <<"0">>
      [] v.k = "arr"  -> v.e # <<>>
      [] v.k = "obj"  -> v.o # NoMembers
      [] OTHER        -> FALSE

\* item.get(key, "") or "": a truthy value that is no str passes unchanged,
\* and is held here by its text
GetOrEmpty(item, key) ==
    LET v == Get(item, key, JStr(<<>>))
    IN  IF Truthy(v) THEN v.s ELSE <<>>

\* whether item.get(key, "").strip() can be called
CanStrip(item, key) == Get(item, key, JStr(<<>>)).k = "str"

GetStripped(item, key) == Strip(Get(item, key, JStr(<<>>)).s)

\* the type a parsed object gets
ItemType(item, qt_exact) ==
    LET item_type == Get(item, "type", JStr(qt_exact))
    IN  IF item_type.k = "str" /\ item_type.s \in VALID_TYPES THEN item_type.s
        ELSE qt_exact

\* a variant of BlankOptions that keeps what the service sent
BlankOptionsKept(q) == q

\* non-MCQ types carry no options and no correct_option
BlankOptions(q) ==
    IF q.type # MCQ
    THEN [q EXCEPT !.option_a = <<>>, !.option_b = <<>>, !.option_c = <<>>,
                   !.option_d = <<>>, !.correct_option = <<>>]
    ELSE q

\* the body of the loop over data, for one item
CoerceItem(item, qt_exact) ==
    IF item.k # "obj" THEN Err("AttributeError")
    ELSE IF Get(item, "type", JStr(qt_exact)).k \in {"arr", "obj"} THEN Err("TypeError")
    ELSE IF ~CanStrip(item, "prompt") \/ ~CanStrip(item, "answer_text")
            \/ ~CanStrip(item, "explanation")
    THEN Err("AttributeError")
    ELSE Ok(BlankOptions(
            [type |-> ItemType(item, qt_exact),
             prompt |-> GetStripped(item, "prompt"),
             option_a |-> GetOrEmpty(item, "option_a"),
             option_b |-> GetOrEmpty(item, "option_b"),
             option_c |-> GetOrEmpty(item, "option_c"),
             option_d |-> GetOrEmpty(item, "option_d"),
             correct_option |-> GetOrEmpty(item, "correct_option"),
             answer_text |-> GetStripped(item, "answer_text"),
             explanation |-> GetStripped(item, "explanation")]))

RECURSIVE CoerceAll(_, _, _)
CoerceAll(items, qt_exact, questions) ==
    IF items = <<>> THEN Ok(questions)
    ELSE LET r == CoerceItem(Head(items), qt_exact)
         IN  IF r.ok THEN CoerceAll(Tail(items), qt_exact, Append(questions, r.val))
             ELSE r

\* what "for item in data" iterates over, or the TypeError of a value that
\* is not iterable: a dict yields its keys, a str its characters
IterItems(data) ==
    CASE data.k = "arr" -> Ok(data.e)
      [] data.k = "obj" ->
            Ok(IF data.o = NoMembers THEN <<>> ELSE <<JStr(<<"k","e","y">>)>>)
      [] data.k = "str" -> Ok([i \in 1..Len(data.s) |-> JStr(<<data.s[i]>>)])
      [] OTHER          -> Err("TypeError")

\* lines 304-359 of generate_questions_ai
ParseAndCoerce(raw_output, question_type) ==
    LET data == json_loads(CleanRawOutput(raw_output))
    IN  IF ~data.ok THEN data
        ELSE IF ~IterItems(data.val).ok THEN IterItems(data.val)
        ELSE CoerceAll(IterItems(data.val).val, QtExact(question_type), <<>>)

(***************************************************************************)
(* Sample notes.                                                           *)
(***************************************************************************)
TextMitochondria ==
    <<"T","h","e"," ","m","i","t","o","c","h","o","n","d","r","i","a"," ","i","s"," ","t",
      "h","e"," ","p","o","w","e","r","h","o","u","s","e"," ","o","f"," ","t","h","e"," ",
      "c","e","l","l","."," ","D","N","A"," ","c","a","r","r","i","e","s"," ","g","e","n",
      "e","t","i","c"," ","i","n","f","o","r","m","a","t","i","o","n",".">>

TextDistractor ==
    <<"A","n"," ","u","n","r","e","l","a","t","e","d"," ","c","o","n","c","e","p","t",".">>

TextLong ==
        <<"T","h","e"," ","a","n","s","w","e","r"," ","t","o"," ","t","h","e"," ","t","e","s",
      "t"," ","i","s"," ","A"," ","s","t","a","t","e","m","e","n","t"," ","t","h","a","t",
      " ","c","o","n","t","r","a","d","i","c","t","s"," ","t","h","e"," ","n","o","t","e",
      "s",".">>

TextDash ==
    <<"O","s","m","o","s","i","s"," ","-"," ","w","a","t","e","r"," ","m","o","v","i","n",
      "g"," ","a","c","r","o","s","s"," ","a"," ","m","e","m","b","r","a","n","e",".","\r",
      "\n","A","T","P",":"," ","e","n","e","r","g","y",".">>

TextStops ==
    <<"T","h","e"," ","o","f"," ","a","n","d"," ","a"," ","i","s","."," ","t","o"," ","i",
      "n"," ","o","n"," ","f","o","r"," ","a","r","e"," ","t","h","e",".">>


TextColon ==
    <<":"," ","a"," ","b"," ","c"," ","d"," ","e"," ","f","."," ","x",":"," ","y">>

(***************************************************************************)
(* The inputs of one call of generate_questions.                           *)
(***************************************************************************)
TextAlphabet == {"a", " ", "."}

\* every text over TextAlphabet of at most MaxTextLen characters
ShortTexts == UNION {[1..n -> TextAlphabet] : n \in 0..MaxTextLen}

Texts ==
    ShortTexts \cup
    {TextMitochondria, TextDistractor, TextLong, TextDash, TextStops, TextColon}

\* the requested type: the four known ones, an unknown one, and None or ""
QuestionTypes == VALID_TYPES \cup {<<"e","s","s","a","y">>, <<>>}

Counts == 0..MaxN

\* the values the service puts in an array
ArrayItems == {"{mcq}", "{flashcard}"}

ArrayText(items) == <<"[">> \o Join([i \in 1..Len(items) |-> <<items[i]>>], <<",", " ">>) \o <<"]">>

\* the arrays of at most MaxItems values
Arrays == {ArrayText(items) : items \in UNION {[1..n -> ArrayItems] : n \in 0..MaxItems}}

\* other reply bodies: single values, and text that is no JSON
OtherBodies ==
    { <<"[", "{noprompt}", "]">>, <<"[", "{mcq}", ",", " ", "{noprompt}", "]">>,
      <<"[", "{nullprompt}", "]">>, <<"[", "{mcq}", ",", " ", "{nullprompt}", "]">>,
      <<"[", "{blank}", "]">>, <<"[", "{essay}", "]">>, <<"[", "{numtype}", "]">>,
      <<"[", "{objtype}", "]">>, <<"[", "7", ",", "{mcq}", "]">>, <<"[", "\"s\"", "]">>,
      <<"{mcq}">>, <<"{}">>, <<"7">>, <<"null">>, <<"\"\"">>, <<"\"s\"">>,
      <<"[", "{mcq}">>, <<"[", "{mcq}", ",", "]">>, <<"[", "{mcq}", "{mcq}", "]">>,
      <<"]", "{mcq}", "[">>, <<"prose">>, <<>> }

\* bodies the service wraps in a fence or in prose
WrappedBodies ==
    { ArrayText(<<"{mcq}">>), ArrayText(<<"{flashcard}", "{mcq}">>),
      <<"{mcq}">>, <<"[", "{mcq}">>, <<"prose">> }

Fenced(body) == FENCE \o <<"json", "\n">> \o body \o <<"\n">> \o FENCE
FencedInline(body) == FENCE \o body \o FENCE
InProse(body) == <<"prose", " ">> \o body \o <<"\n", "prose">>
Padded(body) == <<" ", "\n">> \o body \o <<"\n", " ">>

\* response.output_text, when the call returns
Responses ==
    Arrays \cup OtherBodies
    \cup {Fenced(b) : b \in WrappedBodies}
    \cup {FencedInline(b) : b \in WrappedBodies}
    \cup {InProse(b) : b \in WrappedBodies} \cup {Padded(b) : b \in WrappedBodies}

\* what _openai_client.responses.create raises: the client's errors (a
\* timeout after 15 s among them), all subclasses of Exception
ServiceErrors == {"APITimeoutError", "APIConnectionError", "AuthenticationError"}

\* the classes "except Exception" catches, among those raised here
ExceptionSubclasses ==
    ServiceErrors \cup {"ValueError", "JSONDecodeError", "AttributeError", "TypeError"}

(***************************************************************************)
(* One call of generate_questions.                                         *)
(***************************************************************************)
VARIABLES
    arg_text, arg_type, arg_n,   \* the arguments of the call
    use_ai, has_key, client,     \* settings.USE_AI_QUESTIONS, OPENAI_API_KEY set,
                                 \* _openai_client is not None
    pc,                          \* where the call stands
    text, question_type, num_questions,   \* the locals of generate_questions
    raw_output,                  \* response.output_text in generate_questions_ai
    result,                      \* the list returned
    rnd,                         \* the draws random.choice made
    service_calls,               \* calls of responses.create
    simple_runs,                 \* calls of generate_questions_simple
    service_outcome,             \* "none", "returned", "raised"
    ai_outcome,                  \* of generate_questions_ai: "none", "returned", "raised"
    raised,                      \* the exception that reached the caller, or "none"
    segmented, resegmented,      \* _split_sentences called on its own: its result,
                                 \* and the result of segmenting each sentence again
    rows                         \* the Question rows new_quiz has stored

vars ==
    <<arg_text, arg_type, arg_n, use_ai, has_key, client, pc, text, question_type,
      num_questions, raw_output, result, rnd, service_calls, simple_runs,
      service_outcome, ai_outcome, raised, segmented, resegmented, rows>>

inputs == <<arg_text, arg_type, arg_n, use_ai, has_key, client>>

\* what a call of generate_questions does not touch
outside == <<segmented, resegmented, rows>>

Init ==
    /\ arg_text \in Texts
    /\ arg_type \in QuestionTypes
    /\ arg_n \in Counts
    /\ use_ai \in BOOLEAN
    /\ has_key \in BOOLEAN
    /\ client \in BOOLEAN
    /\ pc = "start"
    /\ text = arg_text
    /\ question_type = arg_type
    /\ num_questions = arg_n
    /\ raw_output = <<>>
    /\ result = <<>>
    /\ rnd = <<>>
    /\ service_calls = 0
    /\ simple_runs = 0
    /\ service_outcome = "none"
    /\ ai_outcome = "none"
    /\ raised = "none"
    /\ segmented = <<>>
    /\ resegmented = <<>>
    /\ rows = <<>>

\* question_type or "mcq", then anything unknown becomes "mcq"
NormalizeType(qt) ==
    IF (IF qt = <<>> THEN MCQ ELSE qt) \notin VALID_TYPES THEN MCQ
    ELSE (IF qt = <<>> THEN MCQ ELSE qt)

\* a variant of UseAiPath that forgets the credential
UseAiPathWithoutKey(ai, cl, key, t) == ai /\ cl /\ t # <<>>

\* the condition under which the model-backed generator is tried
UseAiPath(ai, cl, key, t) == ai /\ cl /\ key /\ t # <<>>

\* lines 71-84: normalise the arguments and choose the path
Normalize ==
    /\ pc = "start"
    /\ text' = _clean_text(text)
    /\ num_questions' = Max(1, num_questions)
    /\ question_type' = NormalizeType(question_type)
    /\ pc' = IF UseAiPath(use_ai, client, has_key, text') THEN "ai_call" ELSE "simple"
    /\ UNCHANGED <<inputs, outside, raw_output, result, rnd, service_calls, simple_runs,
                   service_outcome, ai_outcome, raised>>

\* a variant of ExceptHandler that catches the parse errors only
ExceptHandlerParseOnly(exc) ==
    /\ ai_outcome' = "raised"
    /\ raw_output' = <<>>
    /\ IF exc \in {"ValueError", "JSONDecodeError"}
       THEN pc' = "simple" /\ raised' = raised
       ELSE pc' = "raised" /\ raised' = exc
    /\ UNCHANGED <<inputs, outside, text, question_type, num_questions, result, rnd, simple_runs>>

\* a variant of ExceptHandler in which the text generate_questions_ai
\* rebinds (the stripped raw output) is the text the simple generator gets
ExceptHandlerLeakingText(exc) ==
    /\ ai_outcome' = "raised"
    /\ raw_output' = <<>>
    /\ text' = Strip(raw_output)
    /\ pc' = "simple"
    /\ raised' = raised
    /\ UNCHANGED <<inputs, outside, question_type, num_questions, result, rnd, simple_runs>>

\* a variant of ExceptHandler that tries the service a second time
ExceptHandlerRetrying(exc) ==
    /\ ai_outcome' = "raised"
    /\ raw_output' = <<>>
    /\ pc' = IF service_calls < 1 THEN "ai_call" ELSE "simple"
    /\ raised' = raised
    /\ UNCHANGED <<inputs, outside, text, question_type, num_questions, result, rnd, simple_runs>>

\* lines 86-90: generate_questions_ai raised exc; its frame is gone, and
\* "except Exception" logs and falls through to the simple generator
ExceptHandler(exc) ==
    /\ ai_outcome' = "raised"
    /\ raw_output' = <<>>
    /\ IF exc \in ExceptionSubclasses
       THEN pc' = "simple" /\ raised' = raised
       ELSE pc' = "raised" /\ raised' = exc
    /\ UNCHANGED <<inputs, outside, text, question_type, num_questions, result, rnd, simple_runs>>

\* lines 227-299: the one request to the service raises (a timeout included)
ServiceRaises ==
    /\ pc = "ai_call"
    /\ IF text = <<>>
       THEN /\ ExceptHandler("ValueError")
            /\ UNCHANGED <<service_calls, service_outcome>>
       ELSE \E exc \in ServiceErrors :
            /\ service_calls' = service_calls + 1
            /\ service_outcome' = "raised"
            /\ ExceptHandler(exc)

\* lines 294-302: the request returns a response with its output text
ServiceReturns ==
    /\ pc = "ai_call"
    /\ text # <<>>
    /\ \E r \in Responses :
        /\ raw_output' = r
        /\ service_calls' = service_calls + 1
        /\ service_outcome' = "returned"
        /\ pc' = "ai_parse"
    /\ UNCHANGED <<inputs, outside, text, question_type, num_questions, result, rnd, simple_runs,
                   ai_outcome, raised>>

\* lines 304-359 and the return at line 87
ParseResponse ==
    /\ pc = "ai_parse"
    /\ LET r == ParseAndCoerce(raw_output, question_type)
       IN  IF r.ok
           THEN /\ result' = r.val
                /\ ai_outcome' = "returned"
                /\ pc' = "done"
                /\ UNCHANGED <<inputs, outside, text, question_type, num_questions, raw_output,
                               rnd, simple_runs, raised>>
           ELSE ExceptHandler(r.exc)
    /\ UNCHANGED <<service_calls, service_outcome>>

\* lines 92-93: the simple generator produces the result
SimpleGenerator ==
    /\ pc = "simple"
    /\ \E r \in RandomDraws(text, question_type, num_questions) :
        /\ rnd' = r
        /\ result' = generate_questions_simple(text, question_type, num_questions, r)
    /\ simple_runs' = simple_runs + 1
    /\ pc' = "done"
    /\ UNCHANGED <<inputs, outside, text, question_type, num_questions, raw_output, service_calls,
                   service_outcome, ai_outcome, raised>>

Next == Normalize \/ ServiceRaises \/ ServiceReturns \/ ParseResponse \/ SimpleGenerator

Spec == Init /\ [][Next]_vars

(***************************************************************************)
(* Properties.                                                             *)
(***************************************************************************)
QUESTION_KEYS ==
    {"type", "prompt", "option_a", "option_b", "option_c", "option_d",
     "correct_option", "answer_text", "explanation"}

Range(s) == {s[i] : i \in DOMAIN s}

Done == pc = "done"

\* the model-backed generator would be tried for the arguments of the call
Configured == use_ai /\ client /\ has_key /\ _clean_text(arg_text) # <<>>

\* what a direct call of the simple generator returns for the normalised
\* arguments of the call, under the draws rnd
DirectSimple ==
    generate_questions_simple(_clean_text(arg_text),
                              IF arg_type \in VALID_TYPES THEN arg_type ELSE MCQ,
                              IF arg_n < 1 THEN 1 ELSE arg_n, rnd)

Options(q) == <<q.option_a, q.option_b, q.option_c, q.option_d>>

\* C1: generate_questions never raises: no exception reaches the caller,
\* whatever the service does; a call that has not returned stands at a step
\* that can be taken, and what it returns is a list of question dicts.
C1_NeverRaises ==
    /\ raised = "none"
    /\ pc \in {"start", "ai_call", "ai_parse", "simple", "done"}
    /\ pc = "simple" => RandomDraws(text, question_type, num_questions) # {}
    /\ Done => \A i \in DOMAIN result : DOMAIN result[i] = QUESTION_KEYS

\* a call whose service reply could not be parsed or coerced has returned
\* the simple generator's questions
C1_Witness ==
    /\ Done
    /\ service_outcome = "returned"
    /\ ai_outcome = "raised"
    /\ result # <<>>

\* C2: the list returned has at most max(n, 1) questions on either path,
\* whatever number of objects the service returned.
C2_LengthAtMostRequested ==
    Done => Len(result) <= (IF arg_n > 1 THEN arg_n ELSE 1)

\* C3: when the model-backed generator raises, generate_questions returns
\* what a direct call of generate_questions_simple returns for the same
\* text, type and count under the same random draws.
C3_FallbackEquivalence ==
    (Done /\ ai_outcome = "raised") =>
        /\ rnd \in RandomDraws(_clean_text(arg_text),
                               IF arg_type \in VALID_TYPES THEN arg_type ELSE MCQ,
                               IF arg_n < 1 THEN 1 ELSE arg_n)
        /\ result = DirectSimple

\* a fallback after a reply that could not be used, with a draw made
C3_Witness ==
    /\ Done
    /\ ai_outcome = "raised"
    /\ service_outcome = "returned"
    /\ arg_text = TextMitochondria
    /\ arg_type = FILL_BLANK
    /\ DOMAIN rnd # {}

\* C4 as stated: at most one service call; after a failed call the simple
\* generator runs exactly once; after a successful call it does not run.
C4_NoHeuristicAfterSuccessfulCall ==
    /\ service_calls <= 1
    /\ (Done /\ service_outcome = "raised") => simple_runs = 1
    /\ service_outcome = "returned" => simple_runs = 0

\* C4 amended: at most one service call; after a failed call, or a reply
\* that cannot be parsed or coerced, the service is not called again and the
\* simple generator runs exactly once, last; when generate_questions_ai
\* returns, the simple generator does not run.
C4_SingleAttempt ==
    /\ service_calls <= 1
    /\ simple_runs <= 1
    /\ simple_runs = 1 => Done
    /\ service_outcome = "raised" => service_calls = 1 /\ ai_outcome = "raised"
    /\ (Done /\ ai_outcome = "raised") => simple_runs = 1
    /\ ai_outcome = "returned" => (Done /\ simple_runs = 0 /\ service_calls = 1)

\* a call that returned after the one service call failed
C4_Witness ==
    /\ Done
    /\ service_outcome = "raised"
    /\ service_calls = 1
    /\ simple_runs = 1

\* C5: the service is called only when generation by the model is enabled,
\* the credential is present, the client exists and the normalised text is
\* not empty; otherwise there is no call, no error, and the result is the
\* simple generator's.
C5_ServiceOnlyWhenConfigured ==
    /\ service_calls > 0 => Configured
    /\ ~Configured =>
        /\ service_calls = 0
        /\ ai_outcome = "none"
        /\ raised = "none"
        /\ Done => (simple_runs = 1 /\ result = DirectSimple)

\* a call with everything but the credential, answered by the simple generator
C5_Witness ==
    /\ Done
    /\ use_ai /\ client /\ ~has_key
    /\ _clean_text(arg_text) # <<>>
    /\ simple_runs = 1
    /\ result # <<>>

\* C6: every MCQ dict of the simple generator has four pairwise distinct
\* non-empty options, and the option correct_option names is answer_text.
C6_McqOptionsDistinct ==
    (Done /\ simple_runs = 1) =>
        \A i \in DOMAIN result :
            result[i].type = MCQ =>
                /\ \A a \in 1..4 : Options(result[i])[a] # <<>>
                /\ \A a, b \in 1..4 : a # b => Options(result[i])[a] # Options(result[i])[b]
                /\ result[i].correct_option \in {<<"A">>, <<"B">>, <<"C">>, <<"D">>}
                /\ \A a \in 1..4 :
                    result[i].correct_option = <<(<<"A", "B", "C", "D">>)[a]>> =>
                        Options(result[i])[a] = result[i].answer_text

\* C7: a returned dict whose type is not mcq has empty options and an empty
\* correct_option, on either path.
C7_NonMcqNoOptions ==
    Done =>
        \A i \in DOMAIN result :
            result[i].type # MCQ =>
                /\ \A a \in 1..4 : Options(result[i])[a] = <<>>
                /\ result[i].correct_option = <<>>

\* the service sent a flashcard with options, and the call returned it
C7_Witness ==
    /\ Done
    /\ ai_outcome = "returned"
    /\ "{flashcard}" \in Range(raw_output)
    /\ \E i \in DOMAIN result : result[i].type = FLASHCARD

\* C8: every dict of one call has the requested type (unknown types
\* normalised to mcq), whatever types the service returned.
C8_SingleType ==
    Done =>
        \A i \in DOMAIN result :
            result[i].type = (IF arg_type \in VALID_TYPES THEN arg_type ELSE MCQ)

\* C9: every returned dict has a non-empty prompt.
C9_PromptNonEmpty ==
    Done => \A i \in DOMAIN result : result[i].prompt # <<>>

\* the words of the sentence iteration i is built from, as they stand and
\* without the punctuation at their ends
SentenceWords(i) ==
    LET words == Range(Split(BaseSentence(text, i)))
    IN  words \cup {StripSet(w, {",", "."}) : w \in words}

\* C10: every fill_blank dict of the simple generator has exactly one blank
\* in its prompt and a word of its sentence as answer_text; the notes about
\* mitochondria and DNA with n = 2 give two such dicts.
C10_FillBlankOneBlank ==
    (Done /\ simple_runs = 1 /\ question_type = FILL_BLANK) =>
        /\ \A i \in DOMAIN result :
            /\ Count(result[i].prompt, BLANK) = 1
            /\ result[i].answer_text \in SentenceWords(i)
        /\ (arg_text = TextMitochondria /\ arg_n = 2) => Len(result) = 2

\* the words of the placeholder sentence
PlaceholderWords == Split(PLACEHOLDER_SENTENCE)

\* the placeholder sentence with its word k blanked, after the fixed prompt
\* text, and that word without the punctuation at its ends
PlaceholderFills ==
    {[prompt |-> FILL_PROMPT_PREFIX \o
                   Join([j \in 1..Len(PlaceholderWords) |->
                            IF j = k THEN BLANK ELSE PlaceholderWords[j]], <<" ">>),
      answer_text |-> StripSet(PlaceholderWords[k], {",", "."})] :
        k \in 1..Len(PlaceholderWords)}

\* the record is one the loop body builds from the placeholder sentence, told
\* by its fields: the sentence as the correct option, the answer or the
\* text with one word blanked
FromPlaceholder(q) ==
    CASE q.type = MCQ ->
            /\ q.option_a = PLACEHOLDER_SENTENCE
            /\ q.prompt = MCQ_PROMPT_PREFIX \o PLACEHOLDER_SENTENCE
      [] q.type = FILL_BLANK ->
            [prompt |-> q.prompt, answer_text |-> q.answer_text] \in PlaceholderFills
      [] OTHER -> q.answer_text = PLACEHOLDER_SENTENCE

\* the simple generator ran on the empty text, in which no sentence can be
\* segmented
NoSentence == Done /\ simple_runs = 1 /\ text = <<>>

\* C11 as stated: on a text with no sentence the simple generator returns
\* exactly one record, built from the placeholder sentence, whatever the
\* requested count.
C11_OnePlaceholderRecord ==
    NoSentence => (Len(result) = 1 /\ FromPlaceholder(result[1]))

\* C11 amended: on a text with no sentence the simple generator returns
\* exactly max(n, 1) records, every one built from the placeholder sentence.
C11_PlaceholderPerRequested ==
    NoSentence =>
        /\ Len(result) = (IF arg_n > 1 THEN arg_n ELSE 1)
        /\ \A i \in DOMAIN result :
            result[i].type = question_type /\ FromPlaceholder(result[i])

\* two multiple-choice records were asked for on an empty text, and returned
C11_Witness ==
    /\ NoSentence
    /\ arg_text = <<>>
    /\ arg_type = MCQ
    /\ arg_n = 2
    /\ Len(result) = 2

\* the distinct content words of the text, compared without case and
\* without the punctuation at their ends
DistinctContentWords(t) ==
    LET pool == _split_sentences(t)
    IN  UNION {{Lower(StripSet(w, {",", "."})) : w \in Range(ContentWords(Split(pool[i])))} :
               i \in DOMAIN pool}

\* C12: for a text with fewer than 4 distinct content words and type mcq
\* the simple generator builds no MCQ, and generate_questions returns fewer
\* records than were requested.
C12_FewContentWordsFewerRecords ==
    (Done /\ simple_runs = 1 /\ question_type = MCQ
          /\ Cardinality(DistinctContentWords(text)) < 4) =>
        /\ Len(result) < (IF arg_n > 1 THEN arg_n ELSE 1)
        /\ \A i \in DOMAIN result : result[i].type # MCQ

(***************************************************************************)
(* _split_sentences called on its own.                                     *)
(***************************************************************************)
SegAlphabet == {"a", " ", ".", "!", "?", "\n"}

\* every text over SegAlphabet of at most MaxSegLen characters
SegTexts == UNION {[1..n -> SegAlphabet] : n \in 0..MaxSegLen}

SegInit ==
    /\ arg_text \in SegTexts
    /\ text = arg_text
    /\ pc = "segment"
    /\ arg_type = MCQ /\ question_type = MCQ
    /\ arg_n = 1 /\ num_questions = 1
    /\ use_ai = FALSE /\ has_key = FALSE /\ client = FALSE
    /\ raw_output = <<>> /\ result = <<>> /\ rnd = <<>>
    /\ service_calls = 0 /\ simple_runs = 0
    /\ service_outcome = "none" /\ ai_outcome = "none" /\ raised = "none"
    /\ segmented = <<>> /\ resegmented = <<>> /\ rows = <<>>

\* _split_sentences(text)
Segment ==
    /\ pc = "segment"
    /\ segmented' = _split_sentences(text)
    /\ pc' = "segmented"
    /\ UNCHANGED <<inputs, text, question_type, num_questions, raw_output, result, rnd,
                   service_calls, simple_runs, service_outcome, ai_outcome, raised,
                   resegmented, rows>>

\* _split_sentences(s) for every sentence s of the first result
Resegment ==
    /\ pc = "segmented"
    /\ resegmented' = [i \in 1..Len(segmented) |-> _split_sentences(segmented[i])] \o <<>>
    /\ pc' = "resegmented"
    /\ UNCHANGED <<inputs, text, question_type, num_questions, raw_output, result, rnd,
                   service_calls, simple_runs, service_outcome, ai_outcome, raised,
                   segmented, rows>>

SegNext == Segment \/ Resegment

SegSpec == SegInit /\ [][SegNext]_vars

\* the places of the terminal punctuation marks in t
Marks(t) == {i \in DOMAIN t : t[i] \in {".", "!", "?"}}

\* t has one mark, and nothing but whitespace after it
OneTrailingMark(t) ==
    /\ Cardinality(Marks(t)) = 1
    /\ \A i \in DOMAIN t : (\E m \in Marks(t) : m < i) => t[i] \in Whitespace

\* C13 as stated: a string with exactly one terminal punctuation mark,
\* wherever it stands, segments into exactly one sentence, the trimmed
\* input, and segmenting that sentence gives the same single sentence.
C13_OneMarkOneSentence ==
    Cardinality(Marks(arg_text)) = 1 =>
        /\ pc \in {"segmented", "resegmented"} => segmented = <<Strip(arg_text)>>
        /\ pc = "resegmented" => resegmented = <<segmented>>

\* C13 amended: a string whose only terminal punctuation mark is its last
\* character that is not whitespace segments into exactly one sentence, the
\* trimmed input with every newline turned to a space, and segmenting that
\* sentence gives the same single sentence.
C13_TrailingMarkOneSentence ==
    OneTrailingMark(arg_text) =>
        /\ pc \in {"segmented", "resegmented"} =>
              segmented = <<Strip(ReplaceByChar(arg_text, <<"\n">>, " "))>>
        /\ pc = "resegmented" => resegmented = <<segmented>>

\* a text with a newline inside and its one mark at the end, segmented twice
C13_Witness ==
    /\ pc = "resegmented"
    /\ arg_text = <<"a", "\n", "a", ".">>
    /\ segmented = << <<"a", " ", "a", ".">> >>
    /\ resegmented = <<segmented>>

(***************************************************************************)
(* generate_questions_simple called on its own.                            *)
(***************************************************************************)
TextThree ==
        <<"C","e","l","l","s"," ","d","i","v","i","d","e","!"," ","D","o"," ","t","h","e","y",
      " ","g","r","o","w","?"," ","Y","e","s",".">>

SimpleTexts ==
    ShortTexts \cup
    {TextMitochondria, TextThree, TextDistractor, TextDash, TextStops, TextColon}

\* any type string reaches the loop: the four known ones and an unknown one
SimpleTypes == VALID_TYPES \cup {<<"e","s","s","a","y">>}

SimpleInit ==
    /\ arg_text \in SimpleTexts
    /\ arg_type \in SimpleTypes
    /\ arg_n \in 0..MaxSimpleN
    /\ text = arg_text /\ question_type = arg_type /\ num_questions = arg_n
    /\ pc = "simple"
    /\ use_ai = FALSE /\ has_key = FALSE /\ client = FALSE
    /\ raw_output = <<>> /\ result = <<>> /\ rnd = <<>>
    /\ service_calls = 0 /\ simple_runs = 0
    /\ service_outcome = "none" /\ ai_outcome = "none" /\ raised = "none"
    /\ segmented = <<>> /\ resegmented = <<>> /\ rows = <<>>

SimpleSpec == SimpleInit /\ [][SimpleGenerator]_vars

\* q is a record the loop body builds from the sentence base, under some draw
BuiltFrom(q, base) ==
    \E c \in 0..(Max(ChoicesIn(Split(base), question_type), 1) - 1) :
        q = BuildQuestion(base, question_type, c)

\* C14: called with n >= 1 on a text with k >= 1 sentences the simple
\* generator returns exactly n records, record i (from 0) built from
\* sentence i mod k of the text: in source order, starting over after the
\* last sentence, none skipped.
C14_CyclicOrder ==
    LET pool == _split_sentences(text)
        k    == Len(pool)
    IN  (Done /\ simple_runs = 1 /\ num_questions >= 1 /\ k >= 1) =>
            /\ Len(result) = num_questions
            /\ \A i \in 0..(num_questions - 1) :
                    BuiltFrom(result[i + 1], pool[(i % k) + 1])

\* three short answers from a text of two sentences: the third record is
\* built from the first sentence again
C14_Witness ==
    /\ Done /\ simple_runs = 1
    /\ text = TextMitochondria
    /\ question_type = SHORT_ANSWER
    /\ num_questions = 3
    /\ Len(result) = 3
    /\ result[1].answer_text # result[2].answer_text
    /\ result[3].answer_text = result[1].answer_text

(***************************************************************************)
(* new_quiz: a valid form, the call of generate_questions, the rows.       *)
(***************************************************************************)
\* the form is valid: the type is one of QUESTION_TYPE_CHOICES and the count
\* is at least 1
QuizInit ==
    /\ Init
    /\ arg_type \in VALID_TYPES
    /\ arg_n >= 1

\* Question.objects.create for one dict of questions_data
QuestionRow(selected_type, q) ==
    [question_type  |-> selected_type,
     prompt         |-> q.prompt,
     option_a       |-> q.option_a,
     option_b       |-> q.option_b,
     option_c       |-> q.option_c,
     option_d       |-> q.option_d,
     correct_option |-> q.correct_option,
     answer_text    |-> q.answer_text,
     explanation    |-> q.explanation]

\* the session is created and one row is stored for every dict returned
StoreQuestions ==
    /\ pc = "done"
    /\ rows' = [i \in 1..Len(result) |-> QuestionRow(arg_type, result[i])] \o <<>>
    /\ pc' = "stored"
    /\ UNCHANGED <<inputs, text, question_type, num_questions, raw_output, result, rnd,
                   service_calls, simple_runs, service_outcome, ai_outcome, raised,
                   segmented, resegmented>>

QuizNext ==
    Normalize \/ ServiceRaises \/ ServiceReturns \/ ParseResponse \/ SimpleGenerator
        \/ StoreQuestions

QuizSpec == QuizInit /\ [][QuizNext]_vars

\* C15: the rows stored for a session whose selected type is not mcq carry
\* the selected type and have empty options and an empty correct_option,
\* whichever path produced the dicts and whatever types the service sent.
C15_NoOptionsInNonMcqSession ==
    (pc = "stored" /\ arg_type # MCQ) =>
        \A i \in DOMAIN rows :
            /\ rows[i].question_type = arg_type
            /\ rows[i].option_a = <<>> /\ rows[i].option_b = <<>>
            /\ rows[i].option_c = <<>> /\ rows[i].option_d = <<>>
            /\ rows[i].correct_option = <<>>
====
